---- MODULE Spec2Model ----
(***************************************************************************)
(* State-machine model of the three scraping pipelines of the repository:  *)
(*   - parliament/download.py          (XML session downloader)            *)
(*   - podcast/download_ivoox_podcast.py (podcast audio downloader)        *)
(*   - extract_videos.py               (video segment extractor)           *)
(* The store files, the payload files on disk and the position of a run    *)
(* of main are the state; the network (index pages, feeds, payload         *)
(* responses) is the nondeterministic input.                               *)
(***************************************************************************)
EXTENDS Integers, Sequences, FiniteSets, TLC

\* ------------------------------------------------------------------ bounds
MaxRows == 2      \* rows (<tr>) of one HTML index page

Last(s) == s[Len(s)]

\* ------------------------------------------------------------------- state
\* XML downloader
VARIABLES
  xstore,    \* the xml metadata file: the list of group objects, one per line
  xdisk,     \* payload files under xml_output_dir: path -> bytes, or "absent"
  xpc,       \* position of main: idle, group, rows, write, done, aborted
  xmem,      \* xml_metadata_list, the in-memory list read from the store
  xg,        \* index of the group the loop of main is at
  xrows,     \* the rows of the current index page iterated so far
  xnew,      \* new_xml_info_list of the current group
  xnewmeta,  \* new_xml_metadata_list: new records of each group processed
  xskips,    \* "Caught exception" messages printed for the current page
  xreqs,     \* requests.get calls on row links for the current page
  xstore0    \* history: the store file as read at the start of the run

xvars == <<xstore, xdisk, xpc, xmem, xg, xrows, xnew, xnewmeta, xskips,
           xreqs, xstore0>>

\* podcast downloader
VARIABLES
  pstore,    \* the feed file: the list of feed objects, one per line
  pdisk,     \* audio files under output_dir: path -> bytes, or "absent"
  ppc,       \* position of main: idle, feed, entries, write, done, stats,
             \* aborted
  pmem,      \* feed_rss, the in-memory list read from the store
  pf,        \* index of the feed the loop of main is at
  pentries,  \* feed.entries of the current feed iterated so far
  pnew,      \* new_audio_list of the current feed
  pnewfeeds, \* new_feed_rss: the new records of each feed processed
  pattempts, \* positions in pentries of the entries download_file was
             \* called for
  preqs,     \* requests.get calls made by download_file for the current feed
  pstore0    \* history: the store file as read at the start of the run

pvars == <<pstore, pdisk, ppc, pmem, pf, pentries, pnew, pnewfeeds,
           pattempts, preqs, pstore0>>

\* video extractor
VARIABLES
  vdoc,      \* the XML file given to XMLVideoExtractor
  vpc,       \* "new" after __init__, "parsed" once parse returned
  vvideos,   \* self.videos
  vresult    \* what parse returned: TRUE, FALSE, or "none" before the call

vvars == <<vdoc, vpc, vvideos, vresult>>

\* which of the scripts the behaviour runs
VARIABLE prog

\* A string with '/' in it is the sequence of its '/'-separated parts.
XmlGroupList ==
  << [name |-> "leg11", html_url |-> <<"https:", "", "parl.eus", "leg11">>],
     [name |-> "leg12", html_url |-> <<"https:", "", "parl.eus", "leg12">>] >>

\* base_url = f"https://{html_url.split('/')[2]}"
BaseUrl(html_url) == <<"https:", "", html_url[3]>>

\* An href is its scheme-and-host prefix (<<>> when relative) and the
\* '='-separated segments of what follows.
RelHref == [base |-> <<>>, segs |-> <<"/get?file", "s1.xml">>]
AbsHref == [base |-> <<"http:", "", "mirror.eus">>,
            segs |-> <<"/get?file", "s1.xml">>]
Hrefs == {RelHref, AbsHref}
NoLink == [base |-> <<>>, segs |-> <<>>]

\* A <tr>: the number of its <td> cells (1 stands for fewer than two),
\* the stripped text of the first cell and the <a href> of the second.
\* The pages served are made of these rows: a malformed row, and for each
\* of two names a row with a link and a row without one; both links end
\* in the same file name.
Rows == { [cells |-> 1, name |-> "", link |-> NoLink],
          [cells |-> 2, name |-> "A", link |-> RelHref],
          [cells |-> 2, name |-> "B", link |-> AbsHref],
          [cells |-> 2, name |-> "A", link |-> NoLink],
          [cells |-> 2, name |-> "B", link |-> NoLink] }

\* xml_response.content: the bytes a URL serves are named by the URL.
Served(url) == <<"bytes", url>>

StartsWithHttp(href) == href.base # <<>>

\* if not href.startswith("http"): href = base_url + href
ResolveHref(href, base_url) ==
  IF StartsWithHttp(href) THEN href
  ELSE [base |-> base_url, segs |-> href.segs]

\* filepath = f"{output_dir}/{href.split('=')[-1]}", output_dir ending in name
XmlFilePath(name, href) == <<name, Last(href.segs)>>

XmlPaths == {XmlFilePath(XmlGroupList[g].name, h) :
               g \in 1..Len(XmlGroupList), h \in Hrefs}

\* any(xml_info['name'] == name for xml_info in xml_info_list)
NameKnown(name, xml_info_list) ==
  \E k \in 1..Len(xml_info_list) : xml_info_list[k].name = name

\* RowVerdict without the check of the name against the known list
RowVerdict_NoDedup(row, xml_info_list) ==
  IF row.cells < 2 THEN "malformed"
  ELSE IF row.link = NoLink THEN "nolink"
  ELSE "fetch"

\* The checks of download_xml before the request, in the code's order.
RowVerdict(row, xml_info_list) ==
  IF row.cells < 2 THEN "malformed"
  ELSE IF NameKnown(row.name, xml_info_list) THEN "duplicate"
  ELSE IF row.link = NoLink THEN "nolink"
  ELSE "fetch"

XmlInfo(row, group) ==
  LET href == ResolveHref(row.link, BaseUrl(group.html_url))
  IN [name |-> row.name,
      xml_filepath |-> XmlFilePath(group.name, href),
      xml_url |-> href]

\* MergeLists with the operands swapped: the new records go last
MergeLists_Append(new_list, old_list) == old_list \o new_list

\* new_xml_info_list + xml_info_list (main, line 100), and
\* new_audio_list + audio_list (podcast main, line 152)
MergeLists(new_list, old_list) == new_list \o old_list

XmlInit ==
  /\ xstore = [g \in 1..Len(XmlGroupList) |->
                 [name |-> XmlGroupList[g].name,
                  html_url |-> XmlGroupList[g].html_url,
                  xml_info_list |-> <<>>]]
  /\ xdisk = [p \in XmlPaths |-> "absent"]
  /\ xpc = "idle"
  /\ xmem = <<>>
  /\ xg = 0
  /\ xrows = <<>>
  /\ xnew = <<>>
  /\ xnewmeta = <<>>
  /\ xskips = 0
  /\ xreqs = 0
  /\ xstore0 = <<>>

\* The process ends (main returns or an exception leaves it): what it held
\* in memory is gone, the store file and the payload files stay.
XmlExit ==
  /\ xmem' = <<>> /\ xg' = 0 /\ xrows' = <<>> /\ xnew' = <<>>
  /\ xnewmeta' = <<>> /\ xskips' = 0 /\ xreqs' = 0

\* main, line 71: xml_metadata_list = read_json(xml_metadata_file)
XmlStart ==
  /\ prog = "xml"
  /\ xpc \in {"idle", "done", "aborted"}
  /\ xmem' = xstore
  /\ xstore0' = xstore
  /\ xnewmeta' = <<>>
  /\ xg' = 1
  /\ xpc' = "group"
  /\ xrows' = <<>> /\ xnew' = <<>> /\ xskips' = 0 /\ xreqs' = 0
  /\ UNCHANGED <<xstore, xdisk>>
  /\ UNCHANGED <<prog, pvars, vvars>>

\* main, lines 74-88: the index page of the group is fetched and parsed.
\* The loop reads the page one row at a time and never looks ahead, so the
\* rows are drawn as the loop reaches them: xrows is the page so far.
XmlFetchPage ==
  /\ prog = "xml"
  /\ xpc = "group"
  /\ xrows' = <<>>
  /\ xnew' = <<>>
  /\ xskips' = 0
  /\ xreqs' = 0
  /\ xpc' = "rows"
  /\ UNCHANGED <<xstore, xdisk, xmem, xg, xnewmeta, xstore0>>
  /\ UNCHANGED <<prog, pvars, vvars>>

\* main, lines 83-84: response.raise_for_status() raises (or html_url is
\* missing and requests.get raises): the run ends.
XmlFetchPageFails ==
  /\ prog = "xml"
  /\ xpc = "group"
  /\ xpc' = "aborted"
  /\ XmlExit
  /\ UNCHANGED <<xstore, xdisk, xstore0>>
  /\ UNCHANGED <<prog, pvars, vvars>>

\* XmlRowSkip without the try/except of main: the ValueError of a rejected
\* row leaves the loop
XmlRowSkip_StopsBatch ==
  /\ prog = "xml"
  /\ xpc = "rows" /\ Len(xrows) < MaxRows
  /\ \E row \in Rows :
       /\ RowVerdict(row, xmem[xg].xml_info_list) # "fetch"
       /\ xrows' = Append(xrows, row)
  /\ xskips' = xskips + 1
  /\ xpc' = "aborted"
  /\ UNCHANGED <<xstore, xdisk, xmem, xg, xnew, xnewmeta, xreqs, xstore0>>
  /\ UNCHANGED <<prog, pvars, vvars>>

\* main, lines 89-94 with download_xml, lines 9-22: the next row is
\* rejected with a ValueError, which main catches and prints.
XmlRowSkip ==
  /\ prog = "xml"
  /\ xpc = "rows" /\ Len(xrows) < MaxRows
  /\ \E row \in Rows :
       /\ RowVerdict(row, xmem[xg].xml_info_list) # "fetch"
       /\ xrows' = Append(xrows, row)
  /\ xskips' = xskips + 1
  /\ UNCHANGED <<xstore, xdisk, xpc, xmem, xg, xnew, xnewmeta, xreqs, xstore0>>
  /\ UNCHANGED <<prog, pvars, vvars>>

\* main, lines 89-92 with download_xml, lines 9-44: the next row passes
\* the checks, its link is fetched and written to filepath.
XmlRowDownload ==
  /\ prog = "xml"
  /\ xpc = "rows" /\ Len(xrows) < MaxRows
  /\ \E row \in Rows :
       LET info == XmlInfo(row, xmem[xg])
       IN /\ RowVerdict(row, xmem[xg].xml_info_list) = "fetch"
          /\ xrows' = Append(xrows, row)
          /\ xdisk' = [xdisk EXCEPT ![info.xml_filepath] =
                         Served(info.xml_url)]
          /\ xnew' = Append(xnew, info)
  /\ xreqs' = xreqs + 1
  /\ UNCHANGED <<xstore, xpc, xmem, xg, xnewmeta, xskips, xstore0>>
  /\ UNCHANGED <<prog, pvars, vvars>>

\* download_xml, lines 32-33: xml_response.raise_for_status() raises; the
\* error is no ValueError, so main does not catch it and the run ends.
XmlRowDownloadFails ==
  /\ prog = "xml"
  /\ xpc = "rows" /\ Len(xrows) < MaxRows
  /\ \E row \in Rows : RowVerdict(row, xmem[xg].xml_info_list) = "fetch"
  /\ xpc' = "aborted"
  /\ XmlExit
  /\ UNCHANGED <<xstore, xdisk, xstore0>>
  /\ UNCHANGED <<prog, pvars, vvars>>

\* main, lines 96-100: the rows are exhausted, the group's list is merged.
XmlEndGroup ==
  /\ prog = "xml"
  /\ xpc = "rows"
  /\ xnewmeta' = Append(xnewmeta, xnew)
  /\ xmem' = [xmem EXCEPT ![xg].xml_info_list =
                MergeLists(xnew, xmem[xg].xml_info_list)]
  /\ xg' = xg + 1
  /\ xpc' = IF xg = Len(xmem) THEN "write" ELSE "group"
  /\ UNCHANGED <<xstore, xdisk, xrows, xnew, xskips, xreqs, xstore0>>
  /\ UNCHANGED <<prog, pvars, vvars>>

\* main, line 102: write_json(xml_metadata_file, xml_metadata_list)
XmlWrite ==
  /\ prog = "xml"
  /\ xpc = "write"
  /\ xstore' = xmem
  /\ xpc' = "done"
  /\ XmlExit
  /\ UNCHANGED <<xdisk, xstore0>>
  /\ UNCHANGED <<prog, pvars, vvars>>

XmlNext ==
  \/ XmlStart
  \/ XmlFetchPage
  \/ XmlFetchPageFails
  \/ XmlRowSkip
  \/ XmlRowDownload
  \/ XmlRowDownloadFails
  \/ XmlEndGroup
  \/ XmlWrite

\* ------------------------------------------------------ podcast downloader
MaxEntries == 2   \* entries of one RSS feed

\* feed_info.get(key) of a key the line lacks
None == "None"

GoodFeeds ==
  << [source |-> "ivoox", name |-> "pleno", rss_url |-> "rss/pleno",
      audio_list |-> <<>>],
     [source |-> "ivoox", name |-> "radio", rss_url |-> "rss/radio",
      audio_list |-> <<>>] >>

\* The same file with the second line lacking its rss_url.
BadFeeds == [GoodFeeds EXCEPT ![2].rss_url = None]

\* A feed entry. id is the entry's identifier, a URL, as its '/'-separated
\* parts, the last one a string of decimal digits; enclosure is the url of
\* enclosures[0], None when the entry has none; published_parsed is
\* <<year, month, day>>; the feeds served date every entry.
Entries ==
  { [id |-> <<"https:", "", "ivoox.com", <<1, 0>>>>, enclosure |-> None,
     season |-> None, episode |-> None, published_parsed |-> <<2024, 5, 7>>,
     title |-> "t10", duration |-> "1:02:03"],
    [id |-> <<"https:", "", "ivoox.com", <<1, 0>>>>, enclosure |-> "mp3/10",
     season |-> None, episode |-> None, published_parsed |-> <<2024, 5, 7>>,
     title |-> "t10", duration |-> "1:02:03"],
    [id |-> <<"https:", "", "ivoox.com", <<1, 0>>>>, enclosure |-> "mp3/10",
     season |-> "1", episode |-> "3", published_parsed |-> <<2024, 5, 7>>,
     title |-> "t10", duration |-> "1:02:03"],
    [id |-> <<"https:", "", "ivoox.com", <<1, 1>>>>, enclosure |-> "mp3/11",
     season |-> None, episode |-> None, published_parsed |-> <<2024, 11, 21>>,
     title |-> "t11", duration |-> "02:03"] }

\* int(...) of a string of decimal digits
RECURSIVE ParseInt(_)
ParseInt(digits) ==
  IF digits = <<>> THEN 0
  ELSE 10 * ParseInt(SubSeq(digits, 1, Len(digits) - 1)) + Last(digits)

\* _id = int(os.path.split(full_id)[1])
EntryId(entry) == ParseInt(Last(entry.id))

\* id_list = [audio["id"] for audio in audio_list] if audio_list else None
\* (None and the empty list are both false in "if id_list:")
IdList(audio_list) == [k \in 1..Len(audio_list) |-> audio_list[k].id]

\* IdKnown with the membership test lost
IdKnown_IgnoresList(id, id_list) == FALSE

\* if id_list: if _id in id_list: continue
IdKnown(id, id_list) ==
  /\ id_list # <<>>
  /\ \E k \in 1..Len(id_list) : id_list[k] = id

\* "enclosures" not in entry or not entry.enclosures, or not url
HasEnclosure(entry) == entry.enclosure # None

\* filename = f"{season}x{episode}_{_id}" or f"{_id}", then ".mp3"
FileName(entry) ==
  IF entry.season # None /\ entry.episode # None
  THEN <<entry.season, "x", entry.episode, "_", EntryId(entry), ".mp3">>
  ELSE <<EntryId(entry), ".mp3">>

\* audio_filepath = f"{base_dir}/{filename}.mp3", base_dir = source/name
AudioFilePath(feed, entry) == <<feed.source, feed.name, FileName(entry)>>

PodPaths == {AudioFilePath(GoodFeeds[f], e) :
               f \in 1..Len(GoodFeeds), e \in Entries}

\* time.strftime("%Y-%m-%d", pub_date): month and day in two digits
Pad2(n) == <<n \div 10, n % 10>>
StrfTime(t) == <<t[1], "-", Pad2(t[2]), "-", Pad2(t[3])>>

Audio(feed, entry) ==
  [id |-> EntryId(entry),
   pub_date |-> StrfTime(entry.published_parsed),
   title |-> entry.title,
   duration |-> entry.duration,
   audio_filepath |-> AudioFilePath(feed, entry),
   url |-> entry.enclosure]

\* Exists without the look at the disk: download_file always downloads
Exists_Never(disk, path) == FALSE

\* os.path.exists(output_path)
Exists(disk, path) == disk[path] # "absent"

\* the entry reaches download_file: it has an enclosure url and its id is
\* not in id_list
Reaches(entry, audio_list) ==
  /\ HasEnclosure(entry)
  /\ ~IdKnown(EntryId(entry), IdList(audio_list))

PodInit ==
  /\ pstore \in {GoodFeeds, BadFeeds}
  /\ pdisk = [p \in PodPaths |-> "absent"]
  /\ ppc = "idle"
  /\ pmem = <<>>
  /\ pf = 0
  /\ pentries = <<>>
  /\ pnew = <<>>
  /\ pnewfeeds = <<>>
  /\ pattempts = <<>>
  /\ preqs = 0
  /\ pstore0 = <<>>

\* The process ends (main returns or an exception leaves it): what it held
\* in memory is gone, the store file and the audio files stay.
PodExit ==
  /\ pmem' = <<>> /\ pf' = 0 /\ pentries' = <<>> /\ pnew' = <<>>
  /\ pnewfeeds' = <<>> /\ pattempts' = <<>> /\ preqs' = 0

\* main, line 141: feed_rss = read_feeds(feed_rss_file), not only_stats
PodStart ==
  /\ prog = "pod"
  /\ ppc \in {"idle", "done", "stats", "aborted"}
  /\ pmem' = pstore
  /\ pstore0' = pstore
  /\ pnewfeeds' = <<>>
  /\ pf' = 1
  /\ ppc' = "feed"
  /\ pentries' = <<>> /\ pnew' = <<>> /\ pattempts' = <<>> /\ preqs' = 0
  /\ UNCHANGED <<pstore, pdisk>>
  /\ UNCHANGED <<prog, xvars, vvars>>

\* main, lines 141-143 and 158 with only_stats: the store is read and
\* summarised, nothing is fetched or written.
PodOnlyStats ==
  /\ prog = "pod"
  /\ ppc \in {"idle", "done", "stats", "aborted"}
  /\ pstore0' = pstore
  /\ ppc' = "stats"
  /\ PodExit
  /\ UNCHANGED <<pstore, pdisk>>
  /\ UNCHANGED <<prog, xvars, vvars>>

\* any(v is None for v in (source, name, rss_url))
MissingField(feed_info) ==
  \E v \in {feed_info.source, feed_info.name, feed_info.rss_url} : v = None

\* process_feed, lines 57-76: the feed is fetched and parsed. The loop
\* reads the entries one at a time and never looks ahead, so the entries
\* are drawn as the loop reaches them: pentries is the feed so far.
PodParseFeed ==
  /\ prog = "pod"
  /\ ppc = "feed"
  /\ ~MissingField(pmem[pf])
  /\ pentries' = <<>>
  /\ pnew' = <<>>
  /\ pattempts' = <<>>
  /\ preqs' = 0
  /\ ppc' = "entries"
  /\ UNCHANGED <<pstore, pdisk, pmem, pf, pnewfeeds, pstore0>>
  /\ UNCHANGED <<prog, xvars, vvars>>

\* process_feed, lines 63-64: a required field is missing, ValueError,
\* which main does not catch.
PodMissingField ==
  /\ prog = "pod"
  /\ ppc = "feed"
  /\ MissingField(pmem[pf])
  /\ ppc' = "aborted"
  /\ PodExit
  /\ UNCHANGED <<pstore, pdisk, pstore0>>
  /\ UNCHANGED <<prog, xvars, vvars>>

\* process_feed, lines 69-70: feed.bozo, ValueError, which main does not
\* catch.
PodFeedBozo ==
  /\ prog = "pod"
  /\ ppc = "feed"
  /\ ~MissingField(pmem[pf])
  /\ ppc' = "aborted"
  /\ PodExit
  /\ UNCHANGED <<pstore, pdisk, pstore0>>
  /\ UNCHANGED <<prog, xvars, vvars>>

\* process_feed, lines 79-90: the entry has no enclosure url, or its id
\* is in id_list: continue.
PodEntrySkip ==
  /\ prog = "pod"
  /\ ppc = "entries" /\ Len(pentries) < MaxEntries
  /\ \E entry \in Entries :
       /\ ~Reaches(entry, pmem[pf].audio_list)
       /\ pentries' = Append(pentries, entry)
  /\ UNCHANGED <<pstore, pdisk, ppc, pmem, pf, pnew, pnewfeeds, pattempts,
                 preqs, pstore0>>
  /\ UNCHANGED <<prog, xvars, vvars>>

\* PodEntryExists with download_file returning True for a file that
\* exists: process_feed builds the record
PodEntryExists_Records ==
  /\ prog = "pod"
  /\ ppc = "entries" /\ Len(pentries) < MaxEntries
  /\ \E entry \in Entries :
       /\ Reaches(entry, pmem[pf].audio_list)
       /\ Exists(pdisk, AudioFilePath(pmem[pf], entry))
       /\ pentries' = Append(pentries, entry)
       /\ pnew' = Append(pnew, Audio(pmem[pf], entry))
  /\ pattempts' = Append(pattempts, Len(pentries) + 1)
  /\ UNCHANGED <<pstore, pdisk, ppc, pmem, pf, pnewfeeds, preqs, pstore0>>
  /\ UNCHANGED <<prog, xvars, vvars>>

\* download_file, lines 40-42: the file exists, download_file returns
\* None and process_feed builds no record.
PodEntryExists ==
  /\ prog = "pod"
  /\ ppc = "entries" /\ Len(pentries) < MaxEntries
  /\ \E entry \in Entries :
       /\ Reaches(entry, pmem[pf].audio_list)
       /\ Exists(pdisk, AudioFilePath(pmem[pf], entry))
       /\ pentries' = Append(pentries, entry)
  /\ pattempts' = Append(pattempts, Len(pentries) + 1)
  /\ UNCHANGED <<pstore, pdisk, ppc, pmem, pf, pnew, pnewfeeds, preqs, pstore0>>
  /\ UNCHANGED <<prog, xvars, vvars>>

\* download_file, lines 43-51 and process_feed, lines 104-113: the file
\* is fetched and written whole, the record is appended.
PodEntryDownload ==
  /\ prog = "pod"
  /\ ppc = "entries" /\ Len(pentries) < MaxEntries
  /\ \E entry \in Entries :
       LET path == AudioFilePath(pmem[pf], entry)
       IN /\ Reaches(entry, pmem[pf].audio_list)
          /\ ~Exists(pdisk, path)
          /\ pentries' = Append(pentries, entry)
          /\ pdisk' = [pdisk EXCEPT ![path] = <<"bytes", entry.enclosure>>]
          /\ pnew' = Append(pnew, Audio(pmem[pf], entry))
  /\ pattempts' = Append(pattempts, Len(pentries) + 1)
  /\ preqs' = preqs + 1
  /\ UNCHANGED <<pstore, ppc, pmem, pf, pnewfeeds, pstore0>>
  /\ UNCHANGED <<prog, xvars, vvars>>

\* download_file, lines 45-46 and 52-54: requests.get or raise_for_status
\* raises before the file is opened; download_file returns False.
PodEntryRequestFails ==
  /\ prog = "pod"
  /\ ppc = "entries" /\ Len(pentries) < MaxEntries
  /\ \E entry \in Entries :
       /\ Reaches(entry, pmem[pf].audio_list)
       /\ ~Exists(pdisk, AudioFilePath(pmem[pf], entry))
       /\ pentries' = Append(pentries, entry)
  /\ pattempts' = Append(pattempts, Len(pentries) + 1)
  /\ preqs' = preqs + 1
  /\ UNCHANGED <<pstore, pdisk, ppc, pmem, pf, pnew, pnewfeeds,
                 pstore0>>
  /\ UNCHANGED <<prog, xvars, vvars>>

\* download_file, lines 47-49 and 52-54: the file is opened and the stream
\* breaks; a partial file stays and download_file returns False.
PodEntryStreamFails ==
  /\ prog = "pod"
  /\ ppc = "entries" /\ Len(pentries) < MaxEntries
  /\ \E entry \in Entries :
       LET path == AudioFilePath(pmem[pf], entry)
       IN /\ Reaches(entry, pmem[pf].audio_list)
          /\ ~Exists(pdisk, path)
          /\ pentries' = Append(pentries, entry)
          /\ pdisk' = [pdisk EXCEPT ![path] = <<"partial", entry.enclosure>>]
  /\ pattempts' = Append(pattempts, Len(pentries) + 1)
  /\ preqs' = preqs + 1
  /\ UNCHANGED <<pstore, ppc, pmem, pf, pnew, pnewfeeds, pstore0>>
  /\ UNCHANGED <<prog, xvars, vvars>>

\* PodEndFeed with write_feeds moved into the loop: the store is written
\* after every feed
PodEndFeed_WritesStore ==
  /\ prog = "pod"
  /\ ppc = "entries"
  /\ pnewfeeds' = Append(pnewfeeds, pnew)
  /\ pmem' = [pmem EXCEPT ![pf].audio_list =
                MergeLists(pnew, pmem[pf].audio_list)]
  /\ pstore' = pmem'
  /\ pf' = pf + 1
  /\ ppc' = IF pf = Len(pmem) THEN "write" ELSE "feed"
  /\ UNCHANGED <<pdisk, pentries, pnew, pattempts, preqs, pstore0>>
  /\ UNCHANGED <<prog, xvars, vvars>>

\* main, lines 146-152: process_feed returned, the feed's list is merged.
PodEndFeed ==
  /\ prog = "pod"
  /\ ppc = "entries"
  /\ pnewfeeds' = Append(pnewfeeds, pnew)
  /\ pmem' = [pmem EXCEPT ![pf].audio_list =
                MergeLists(pnew, pmem[pf].audio_list)]
  /\ pf' = pf + 1
  /\ ppc' = IF pf = Len(pmem) THEN "write" ELSE "feed"
  /\ UNCHANGED <<pstore, pdisk, pentries, pnew, pattempts, preqs,
                 pstore0>>
  /\ UNCHANGED <<prog, xvars, vvars>>

\* main, line 154: write_feeds(feed_rss_file, feed_rss)
PodWrite ==
  /\ prog = "pod"
  /\ ppc = "write"
  /\ pstore' = pmem
  /\ ppc' = "done"
  /\ PodExit
  /\ UNCHANGED <<pdisk, pstore0>>
  /\ UNCHANGED <<prog, xvars, vvars>>

PodNext ==
  \/ PodStart
  \/ PodOnlyStats
  \/ PodParseFeed
  \/ PodMissingField
  \/ PodFeedBozo
  \/ PodEntrySkip
  \/ PodEntryExists
  \/ PodEntryDownload
  \/ PodEntryRequestFails
  \/ PodEntryStreamFails
  \/ PodEndFeed
  \/ PodWrite

\* -------------------------------------------------------- video extractor
MaxLevels == 5    \* for _ in range(5)
MaxDepth == 6     \* ancestors of the element that holds the URL
MaxParams == 2    \* parameters of the URL's query string

\* The text of an element: the tokens of a plain text, or a URL as
\* <<[host, path, query]>>, query the sequence of its <<key, value>> pairs.
NoText == [tokens |-> <<>>, url |-> <<>>]
PlainText(tokens) == [tokens |-> tokens, url |-> <<>>]
UrlText(u) == [tokens |-> <<>>, url |-> <<u>>]

\* element.text is a non-empty string
HasText(t) == t.tokens # <<>> \/ t.url # <<>>

Keys == {"streamlegealdia", "streamname", "streamdbstart", "streamdbend"}
Pairs == {<<k, v>> : k \in Keys, v \in {"", "10"}}
Urls == [host : {"legebiltzarra.eus", "example.org"},
         path : {"videos", "docs"},
         query : UNION {[1..n -> Pairs] : n \in 0..MaxParams}]

\* "word in text": the words a text is made of
Words(t) ==
  {t.tokens[i] : i \in 1..Len(t.tokens)} \cup
  UNION {{t.url[i].host, t.url[i].path} \cup
         {t.url[i].query[j][1] : j \in 1..Len(t.url[i].query)} \cup
         {t.url[i].query[j][2] : j \in 1..Len(t.url[i].query)}
           : i \in 1..Len(t.url)}
Contains(t, word) == word \in Words(t)

\* str.strip() of a plain text: blanks at both ends go
RECURSIVE Strip(_)
Strip(tokens) ==
  IF tokens = <<>> THEN <<>>
  ELSE IF tokens[1] = " " THEN Strip(Tail(tokens))
  ELSE IF Last(tokens) = " " THEN Strip(SubSeq(tokens, 1, Len(tokens) - 1))
  ELSE tokens

\* parse_qs(parsed.query)[key]: the pairs of key with a non-blank value,
\* in order
QsValues(query, key) ==
  SelectSeq(query, LAMBDA kv : kv[1] = key /\ kv[2] # "")

\* get_param = lambda key: params.get(key, [None])[0]
GetParam(query, key) ==
  IF QsValues(query, key) = <<>> THEN None ELSE QsValues(query, key)[1][2]

\* _parse_video_url: <<>> for None, <<video_info>> otherwise
ParseVideoUrl(text) ==
  IF ~Contains(text, "streamlegealdia") /\ ~Contains(text, "streamdbstart")
  THEN <<>>
  ELSE IF text.url = <<>> THEN <<>>
  ELSE LET q == text.url[1].query
           info == [url |-> text.url[1],
                    stream_legealdia |-> GetParam(q, "streamlegealdia"),
                    stream_organoa |-> GetParam(q, "streamorganoa"),
                    stream_data |-> GetParam(q, "streamdata"),
                    stream_name |-> GetParam(q, "streamname"),
                    start_time |-> GetParam(q, "streamdbstart"),
                    end_time |-> GetParam(q, "streamdbend")]
       IN IF info.start_time # None \/ info.end_time # None
          THEN <<info>> ELSE <<>>

\* A document is its elements in document order, each with its tag, its
\* text and the position of its parent (0 for the root).
DescTag == "sesiones_pleno_asunto_indice_descripcion"

\* Element.iter(): the element and its descendants
RECURSIVE IsInSubtree(_, _, _)
IsInSubtree(nodes, top, i) ==
  IF i = top THEN TRUE
  ELSE IF i = 0 THEN FALSE
  ELSE IsInSubtree(nodes, top, nodes[i].parent)
Iter(nodes, top) == {i \in 1..Len(nodes) : IsInSubtree(nodes, top, i)}

\* Element.find('..'): ElementPath looks the element up in the parent map
\* of the element find is called on, {c: p for p in elem.iter() for c in p};
\* 0 stands for None.
ParentMapDomain(nodes, elem) ==
  {c \in 1..Len(nodes) : nodes[c].parent \in Iter(nodes, elem)}
FindParent(nodes, elem) ==
  IF elem \in ParentMapDomain(nodes, elem) THEN nodes[elem].parent ELSE 0

\* Element.find('.//tag'): the first descendant with the tag, 0 for None
FindDescendant(nodes, elem, tag) ==
  LET found == {i \in Iter(nodes, elem) \ {elem} : nodes[i].tag = tag}
  IN IF found = {} THEN 0
     ELSE CHOOSE i \in found : \A j \in found : i <= j

\* _get_description: the loop body, levels left to go
RECURSIVE DescriptionFrom(_, _, _)
DescriptionFrom(nodes, elem, levels) ==
  IF levels = 0 THEN <<None>>
  ELSE LET parent == FindParent(nodes, elem)
       IN IF parent = 0 THEN <<None>>
          ELSE LET desc_elem == FindDescendant(nodes, parent, DescTag)
               IN IF desc_elem # 0 /\ HasText(nodes[desc_elem].text)
                  THEN Strip(nodes[desc_elem].text.tokens)
                  ELSE DescriptionFrom(nodes, parent, levels - 1)

GetDescription(nodes, elem) == DescriptionFrom(nodes, elem, MaxLevels)

\* 'legebiltzarra.eus' in text and 'videos' in text
HasMarker(text) ==
  Contains(text, "legebiltzarra.eus") /\ Contains(text, "videos")

\* _extract_video_links: root.iter() from element i on
RECURSIVE VideoLinksFrom(_, _)
VideoLinksFrom(nodes, i) ==
  IF i > Len(nodes) THEN <<>>
  ELSE LET text == nodes[i].text
           parsed == IF HasText(text) /\ HasMarker(text)
                     THEN ParseVideoUrl(text) ELSE <<>>
           found == IF parsed = <<>> THEN <<>>
                    ELSE << [info |-> parsed[1],
                             description |-> GetDescription(nodes, i),
                             element |-> i] >>
       IN found \o VideoLinksFrom(nodes, i + 1)

ExtractVideoLinks(nodes) == VideoLinksFrom(nodes, 1)

\* The documents parsed: a chain of `depth` nested elements around the
\* element that holds the text; level 1 is its parent, level `depth` the
\* root. Level L's element may have a description node as its first
\* child, with an empty or a non-empty text.
DescOptions == {"none", "empty", "text"}
DescWords == <<"item 1", "item 2", "item 3", "item 4", "item 5", "item 6",
               "item 7", "item 8">>
DocShapes ==
  {sh \in UNION {[depth : {d}, desc : [1..d -> DescOptions]] : d \in 1..MaxDepth} :
     Cardinality({L \in 1..sh.depth : sh.desc[L] # "none"}) <= 2}

ContainerAt(sh, L) ==
  (sh.depth - L) +
  Cardinality({M \in (L + 1)..sh.depth : sh.desc[M] # "none"}) + 1

DocSize(sh) ==
  sh.depth + Cardinality({L \in 1..sh.depth : sh.desc[L] # "none"}) + 1

BuildDoc(sh, text) ==
  [i \in 1..DocSize(sh) |->
     IF i = DocSize(sh)
     THEN [tag |-> "video_url", text |-> text, parent |-> ContainerAt(sh, 1)]
     ELSE IF \E L \in 1..sh.depth : ContainerAt(sh, L) = i
     THEN LET L == CHOOSE L \in 1..sh.depth : ContainerAt(sh, L) = i
          IN [tag |-> "item", text |-> NoText,
              parent |-> IF L = sh.depth THEN 0 ELSE ContainerAt(sh, L + 1)]
     ELSE LET L == CHOOSE L \in 1..sh.depth : ContainerAt(sh, L) + 1 = i
          IN [tag |-> DescTag,
              text |-> IF sh.desc[L] = "empty" THEN NoText
                       ELSE PlainText(<<" ", DescWords[L], " ">>),
              parent |-> ContainerAt(sh, L)]]

VidInit ==
  /\ vdoc \in [wellformed : {TRUE}, shape : DocShapes, text : {UrlText(u) : u \in Urls}]
       \cup {[wellformed |-> FALSE, shape |-> [depth |-> 1, desc |-> <<"none">>],
              text |-> NoText]}
  /\ vpc = "new"
  /\ vvideos = <<>>
  /\ vresult = "none"

\* parse, lines 25-35: the file is well-formed
VidParse ==
  /\ prog = "vid"
  /\ vpc = "new"
  /\ vdoc.wellformed
  /\ vvideos' = ExtractVideoLinks(BuildDoc(vdoc.shape, vdoc.text))
  /\ vresult' = TRUE
  /\ vpc' = "parsed"
  /\ UNCHANGED <<vdoc, prog, xvars, pvars>>

\* parse, lines 36-38: ET.ParseError
VidParseError ==
  /\ prog = "vid"
  /\ vpc = "new"
  /\ ~vdoc.wellformed
  /\ vresult' = FALSE
  /\ vpc' = "parsed"
  /\ UNCHANGED <<vdoc, vvideos, prog, xvars, pvars>>

VidNext ==
  \/ VidParse
  \/ VidParseError

\* ------------------------------------------------------- specifications
vars == <<prog, xvars, pvars, vvars>>

\* What the downloaders start from; the extractor is not running.
VidIdle ==
  /\ vdoc = [wellformed |-> FALSE, shape |-> [depth |-> 1, desc |-> <<"none">>],
             text |-> NoText]
  /\ vpc = "new" /\ vvideos = <<>> /\ vresult = "none"

\* The scripts are separate programs: a behaviour is the runs of one of
\* them, the other two not running.
PodIdle == PodInit /\ pstore = GoodFeeds

InitXml == prog = "xml" /\ XmlInit /\ PodIdle /\ VidIdle
SpecXml == InitXml /\ [][XmlNext]_vars

InitPod == prog = "pod" /\ XmlInit /\ PodInit /\ VidIdle
SpecPod == InitPod /\ [][PodNext]_vars

InitVid == prog = "vid" /\ XmlInit /\ PodIdle /\ VidInit
SpecVid == InitVid /\ [][VidNext]_vars

\* the two downloaders
Init == InitXml \/ InitPod
Next == XmlNext \/ PodNext
Spec == Init /\ [][Next]_vars

\* ------------------------------------------------------------------ claims

\* C1: after any sequence of completed runs of the XML downloader no
\* group's xml_info_list in the store holds two records with the same name.
C1_NoDuplicateNames ==
  \A g \in 1..Len(xstore) :
    \A i, j \in 1..Len(xstore[g].xml_info_list) :
      i # j => xstore[g].xml_info_list[i].name # xstore[g].xml_info_list[j].name

\* C2: after any sequence of completed runs of the podcast downloader no
\* feed's audio_list in the store holds two records with the same id.
C2_NoDuplicateIds ==
  \A f \in 1..Len(pstore) :
    \A i, j \in 1..Len(pstore[f].audio_list) :
      i # j => pstore[f].audio_list[i].id # pstore[f].audio_list[j].id

\* C3 as stated: in both downloaders no step changes or removes a payload
\* file that exists on disk.
C3_NoExistingFileAltered ==
  [][/\ \A p \in XmlPaths : xdisk[p] # "absent" => xdisk'[p] = xdisk[p]
     /\ \A p \in PodPaths : pdisk[p] # "absent" => pdisk'[p] = pdisk[p]]_vars

\* C3, amended: in the podcast downloader no step changes or removes an
\* audio file that exists on disk, and a call of download_file for a path
\* that exists makes no request and builds no record.
C3_PodcastKeepsExistingFiles ==
  [][/\ \A p \in PodPaths : pdisk[p] # "absent" => pdisk'[p] = pdisk[p]
     /\ (/\ ppc = "entries"
         /\ Len(pattempts') = Len(pattempts) + 1
         /\ Exists(pdisk, AudioFilePath(pmem[pf], pentries'[Len(pentries')])))
        => (preqs' = preqs /\ pnew' = pnew /\ pdisk' = pdisk)]_vars

\* download_file was called for a path that exists and made no request
C3_Witness ==
  /\ prog = "pod" /\ ppc = "entries"
  /\ Len(pattempts) = 1 /\ preqs = 0
  /\ pdisk[AudioFilePath(pmem[pf], pentries[pattempts[1]])] # "absent"

\* the rows of the page so far with at least two cells all carry a name
\* that a record of the list has
C4_AllKnown(rows, xml_info_list) ==
  \A i \in 1..Len(rows) :
    rows[i].cells >= 2 =>
      \E k \in 1..Len(xml_info_list) : xml_info_list[k].name = rows[i].name

\* C4: when every row of a group's page with at least two cells carries a
\* name already in the group's stored list, the group's processing makes no
\* request on a row link, creates no record, and leaves the list as it was.
C4_KnownRowsNoDownload ==
  /\ (xpc = "rows" /\ C4_AllKnown(xrows, xstore0[xg].xml_info_list))
       => (xreqs = 0 /\ xnew = <<>>)
  /\ (xpc \in {"group", "write"} /\ xg > 1
        /\ C4_AllKnown(xrows, xstore0[xg - 1].xml_info_list))
       => /\ xreqs = 0
          /\ xnewmeta[xg - 1] = <<>>
          /\ xmem[xg - 1].xml_info_list = xstore0[xg - 1].xml_info_list

\* a group was processed whose page repeated only known names
C4_Witness ==
  /\ prog = "xml" /\ xpc \in {"group", "write"} /\ xg > 1
  /\ Len(xrows) = 2
  /\ \A i \in 1..2 : xrows[i].cells = 2 /\ xrows[i].link # NoLink
  /\ C4_AllKnown(xrows, xstore0[xg - 1].xml_info_list)

\* the positions, in order, of the entries so far that have an enclosure
\* url and whose id no record of the list carries
C5_Expected(entries, audio_list) ==
  SelectSeq([i \in 1..Len(entries) |-> i],
            LAMBDA i : /\ entries[i].enclosure # None
                       /\ \A k \in 1..Len(audio_list) :
                            audio_list[k].id # EntryId(entries[i]))

\* the feed's stored list while the feed is processed and once it was
C5_Known ==
  IF ppc = "entries" THEN pstore0[pf].audio_list
  ELSE pstore0[pf - 1].audio_list

\* C5: process_feed calls download_file for exactly the entries that have
\* an enclosure url and an id not in the feed's stored list; when there is
\* no such entry it makes no request and returns no record.
C5_AttemptsExactlyUnknown ==
  (ppc = "entries" \/ (ppc \in {"feed", "write"} /\ pf > 1)) =>
    /\ pattempts = C5_Expected(pentries, C5_Known)
    /\ C5_Expected(pentries, C5_Known) = <<>> => (preqs = 0 /\ pnew = <<>>)

\* process_feed returned for a feed of two entries with an enclosure, one
\* with a known id, the other attempted
C5_Witness ==
  /\ prog = "pod" /\ ppc \in {"feed", "write"} /\ pf > 1
  /\ Len(pentries) = 2
  /\ \A i \in 1..2 : pentries[i].enclosure # None
  /\ pstore0[pf - 1].audio_list # <<>>
  /\ Len(pattempts) = 1

\* the records download_xml returns for the rows so far, in row order
RECURSIVE C6_XmlRecords(_, _, _)
C6_XmlRecords(rows, known, group) ==
  IF rows = <<>> THEN <<>>
  ELSE (IF RowVerdict(rows[1], known) = "fetch"
        THEN <<XmlInfo(rows[1], group)>> ELSE <<>>)
       \o C6_XmlRecords(Tail(rows), known, group)

\* C6: the new records of a group are those of its rows (entries) in the
\* order processed, and the list a completed run persists for each group is
\* the run's new records followed by the list the store held before.
C6_NewBeforeOld ==
  /\ [](xpc = "rows" =>
          xnew = C6_XmlRecords(xrows, xstore0[xg].xml_info_list, xstore0[xg]))
  /\ [](ppc = "entries" =>
          /\ Len(pnew) <= Len(pattempts)
          /\ \A k \in 1..Len(pnew) :
               \E i \in 1..Len(pattempts) :
                 /\ pnew[k] = Audio(pstore0[pf], pentries[pattempts[i]])
                 /\ k < Len(pnew) =>
                      \E j \in (i + 1)..Len(pattempts) :
                        pnew[k + 1] = Audio(pstore0[pf], pentries[pattempts[j]]))
  /\ [][/\ (xpc = "write" /\ xpc' = "done") =>
             \A g \in 1..Len(xstore) :
               xstore'[g] = [xstore[g] EXCEPT !.xml_info_list =
                               xnewmeta[g] \o xstore[g].xml_info_list]
        /\ (ppc = "write" /\ ppc' = "done") =>
             \A f \in 1..Len(pstore) :
               pstore'[f] = [pstore[f] EXCEPT !.audio_list =
                               pnewfeeds[f] \o pstore[f].audio_list]]_vars

\* a podcast run about to write: the first feed's stored list holds a
\* record of id 10 and the run's one new record for it has id 11
C6_Witness ==
  /\ prog = "pod" /\ ppc = "write"
  /\ Len(pstore[1].audio_list) = 1 /\ pstore[1].audio_list[1].id = 10
  /\ Len(pnewfeeds[1]) = 1 /\ pnewfeeds[1][1].id = 11

\* the three rejections of a row, as the claim words them
C7_Rejected(row, xml_info_list) ==
  \/ row.cells < 2
  \/ \E k \in 1..Len(xml_info_list) : xml_info_list[k].name = row.name
  \/ row.link = NoLink

C8_StoreWrittenOnlyAtEnd ==
  /\ [](xpc = "aborted" => xstore = xstore0)
  /\ [](ppc = "aborted" => pstore = pstore0)
  /\ [][/\ xstore' # xstore =>
             (xpc = "write" /\ xg = Len(xstore) + 1 /\ xpc' = "done")
        /\ pstore' # pstore =>
             (ppc = "write" /\ pf = Len(pstore) + 1 /\ ppc' = "done")
        /\ xmem' # xmem /\ xmem = <<>> => xmem' = xstore
        /\ pmem' # pmem /\ pmem = <<>> => pmem' = pstore]_vars

\* a podcast run aborted on a store that holds a record of an earlier run,
\* having downloaded a file the store has no record of
C8_Witness ==
  /\ prog = "pod" /\ ppc = "aborted"
  /\ pstore[1].audio_list # <<>>
  /\ \E p \in PodPaths :
       /\ pdisk[p] # "absent"
       /\ \A f \in 1..Len(pstore) :
            \A k \in 1..Len(pstore[f].audio_list) :
              pstore[f].audio_list[k].audio_filepath # p

\* the query string carries a non-empty start or end timestamp
C9_HasTimestamp(url) ==
  \E j \in 1..Len(url.query) :
    /\ url.query[j][1] \in {"streamdbstart", "streamdbend"}
    /\ url.query[j][2] # ""

\* C9: a text with the hostname and "videos" markers is accepted as a
\* video segment exactly when its query string carries a non-empty start
\* or end timestamp, whatever other parameters it has.
C9_AcceptedIffTimestamp ==
  (vpc = "parsed" /\ vdoc.wellformed /\ HasMarker(vdoc.text)) =>
    (vvideos # <<>> <=> C9_HasTimestamp(vdoc.text.url[1]))

\* the ancestor `levels` levels above an element, 0 above the root
RECURSIVE C10_Ancestor(_, _, _)
C10_Ancestor(nodes, elem, levels) ==
  IF levels = 0 \/ elem = 0 THEN elem
  ELSE C10_Ancestor(nodes, nodes[elem].parent, levels - 1)

\* the levels, of the 5 above an element, whose ancestor has a description
\* node with a non-empty text below it
C10_Levels(nodes, elem) ==
  {L \in 1..MaxLevels :
     /\ C10_Ancestor(nodes, elem, L) # 0
     /\ \E d \in Iter(nodes, C10_Ancestor(nodes, elem, L)) :
          nodes[d].tag = DescTag /\ HasText(nodes[d].text)}

\* C10: the description of an accepted segment is the text of the
\* description node of the nearest ancestor, within 5 levels, that has one
\* with a non-empty text, and is absent only when there is none.
C10_DescriptionFromNearestAncestor ==
  vpc = "parsed" =>
    \A v \in 1..Len(vvideos) :
      LET nodes == BuildDoc(vdoc.shape, vdoc.text)
          elem == vvideos[v].element
          levels == C10_Levels(nodes, elem)
          nearest == CHOOSE L \in levels : \A M \in levels : L <= M
          anc == C10_Ancestor(nodes, elem, nearest)
      IN IF levels = {} THEN vvideos[v].description = <<None>>
         ELSE \E d \in Iter(nodes, anc) :
                /\ nodes[d].tag = DescTag /\ HasText(nodes[d].text)
                /\ vvideos[v].description = Strip(nodes[d].text.tokens)

\* no record of feed f that the store file or the running process holds
\* satisfies P
C11_NoRecord(f, P(_)) ==
  /\ \A k \in 1..Len(pstore[f].audio_list) : ~P(pstore[f].audio_list[k])
  /\ f <= Len(pmem) =>
       \A k \in 1..Len(pmem[f].audio_list) : ~P(pmem[f].audio_list[k])
  /\ f <= Len(pnewfeeds) =>
       \A k \in 1..Len(pnewfeeds[f]) : ~P(pnewfeeds[f][k])
  /\ (ppc = "entries" /\ pf = f) =>
       \A k \in 1..Len(pnew) : ~P(pnew[k])

\* a file is on disk at the path of entry e of feed f and feed f has no
\* record of e's id, in the store or in the running process
C11_OrphanId(f, e) ==
  /\ HasEnclosure(e)
  /\ Exists(pdisk, AudioFilePath(pstore[f], e))
  /\ C11_NoRecord(f, LAMBDA r : r.id = EntryId(e))

\* a file is on disk at path p and no feed has a record of that path, in
\* the store or in the running process
C11_OrphanPath(p) ==
  /\ Exists(pdisk, p)
  /\ \A f \in 1..Len(pstore) :
       C11_NoRecord(f, LAMBDA r : r.audio_filepath = p)

\* C11 as stated: once a file is on disk at an entry's path and the feed
\* has no record of the entry's id, no step that changes the records a run
\* collects or the store gives the feed a record of that id.
C11_OrphanIdNeverStored ==
  [][\A f \in 1..Len(pstore) : \A e \in Entries :
       C11_OrphanId(f, e) => C11_OrphanId(f, e)']_<<pnew, pstore>>

\* C11, amended: a call of download_file for a path that holds a file
\* without a record makes no request and gives no record, and once a file
\* is on disk at an entry's path and no record has that path, the file
\* stays and no step of any run creates a record of that path: the entry
\* is never recorded.
C11_OrphanFileNeverRecorded ==
  [][/\ \A p \in PodPaths : C11_OrphanPath(p) => C11_OrphanPath(p)'
     /\ (/\ ppc = "entries"
         /\ Len(pattempts') = Len(pattempts) + 1
         /\ C11_OrphanPath(AudioFilePath(pstore[pf], Last(pentries'))))
        => (pnew' = pnew /\ preqs' = preqs)]_vars

\* a run is about to write the store: an earlier run left a truncated file
\* at the path of an entry of the last feed, this run called download_file
\* for the entry, made no request, and has no record for the feed
C11_Witness ==
  /\ prog = "pod" /\ ppc = "write"
  /\ preqs = 0 /\ Len(pattempts) = 1
  /\ LET e == pentries[pattempts[1]]
     IN /\ pdisk[AudioFilePath(pstore[pf - 1], e)] = <<"partial", e.enclosure>>
        /\ C11_OrphanPath(AudioFilePath(pstore[pf - 1], e))
        /\ pmem[pf - 1].audio_list = pstore[pf - 1].audio_list
====
